---- MODULE Spec2Model ----
(***************************************************************************)
(* Model of lector_word.py: title normalisation, block extraction, the     *)
(* heading-range resolver (_rangos_por_titulo), the classic merge          *)
(* (procesar) and the per-title grouping (procesar_grouped).               *)
(*                                                                         *)
(* Texts are strings; Chars/Str convert between a string and its sequence  *)
(* of one-character strings so that the regular expressions and the        *)
(* Unicode steps of the source are computed character by character.        *)
(* Indices inside ranges are 0-based as in the source: the block at        *)
(* 0-based index i is bloques[i + 1].                                      *)
(***************************************************************************)
EXTENDS Integers, Sequences, FiniteSets, TLC

VARIABLES
    pc,                    \* position of the running call
    s, n1, n2,             \* norm: input, norm(s), norm(norm(s))
    bloques, rangos,       \* _rangos_por_titulo: blocks and returned list
    archivos,              \* procesar / procesar_grouped: input files
    niveles,               \* level filter
    titulos,               \* titulos_exactos / titulos_objetivo (raw texts)
    enforce_whitelist,
    group_level,
    titulos_exactos_norm,  \* normalised title filter
    objetivos_norm,        \* normalised requested titles (grouped mode)
    idx,                   \* number of files already consumed by the loop
    doc,                   \* body of composer.doc in procesar
    ws,                    \* rows of the "Tablas" sheet, header first
    tabla_idx,
    all_titles_norm, sample_visible_for, target_keys,
    key_order,             \* iteration order of the set target_keys
    composers,             \* <<key, body>> pairs in insertion order
    out                    \* returned mapping

vars == <<pc, s, n1, n2, bloques, rangos, archivos, niveles, titulos,
          enforce_whitelist, group_level, titulos_exactos_norm,
          objetivos_norm, idx, doc, ws, tabla_idx, all_titles_norm,
          sample_visible_for, target_keys, key_order, composers, out>>

(***************************************************************************)
(* Strings as character sequences                                          *)
(***************************************************************************)
RECURSIVE Flatten(_)
Flatten(ss) ==
    IF Len(ss) = 0 THEN <<>>
    ELSE IF Len(ss) = 1 THEN ss[1]
    ELSE Flatten(SubSeq(ss, 1, Len(ss) \div 2))
         \o Flatten(SubSeq(ss, Len(ss) \div 2 + 1, Len(ss)))

\* A text is a string of ASCII characters in which a code point above
\* U+007F is written as a name in braces: "{o'}" is U+00F3 (o with acute),
\* "{N~}" is U+00D1, "{u:}" is U+00FC, and "{'}", "{~}", "{:}" are the
\* combining marks U+0301, U+0303, U+0308.  The control and space characters
\* that a string literal cannot hold are written the same way:
\*   "{VT}" U+000B  "{FS}" U+001C  "{GS}" U+001D  "{RS}" U+001E  "{US}" U+001F
\*   "{NL}" U+0085  "{NB}" U+00A0  "{OG}" U+1680
\*   "{S0}".."{S9}", "{SA}" U+2000..U+200A
\*   "{LS}" U+2028  "{PS}" U+2029  "{NN}" U+202F  "{MM}" U+205F  "{IS}" U+3000
\* Chars yields one element per code point.
Chars(str) ==
    LET ch(i) == SubSeq(str, i, i)
        \* i lies after a "{" that is not closed yet (a name has <= 2 characters)
        Inside(i) == \E o \in (i - 3)..(i - 1) :
                        /\ o >= 1 /\ ch(o) = "{"
                        /\ \A m \in (o + 1)..(i - 1) : ch(m) # "}"
        Close(i) == CHOOSE k \in (i + 1)..(i + 3) :
                        ch(k) = "}" /\ \A m \in (i + 1)..(k - 1) : ch(m) # "}"
        Piece(i) == IF Inside(i) THEN <<>>
                    ELSE IF ch(i) = "{" THEN <<SubSeq(str, i, Close(i))>>
                    ELSE <<ch(i)>>
    IN  Flatten([i \in 1..Len(str) |-> Piece(i)])

RECURSIVE Str(_)
Str(cs) ==
    IF Len(cs) = 0 THEN ""
    ELSE IF Len(cs) = 1 THEN cs[1]
    ELSE Str(SubSeq(cs, 1, Len(cs) \div 2))
         \o Str(SubSeq(cs, Len(cs) \div 2 + 1, Len(cs)))

Min(S) == CHOOSE m \in S : \A o \in S : m <= o

Max(S) == CHOOSE m \in S : \A o \in S : m >= o

(***************************************************************************)
(* Character tables: the part of Unicode the model's texts use.  A         *)
(* character outside a table is left unchanged by the step that uses it.   *)
(***************************************************************************)
UpperChars == Chars("ABCDEFGHIJKLMNOPQRSTUVWXYZ{A'}{E'}{I'}{O'}{U'}{N~}{U:}")

LowerChars == Chars("abcdefghijklmnopqrstuvwxyz{a'}{e'}{i'}{o'}{u'}{n~}{u:}")

Precomposed == Chars("{a'}{e'}{i'}{o'}{u'}{n~}{u:}{A'}{E'}{I'}{O'}{U'}{N~}{U:}")

DecomposedBase == Chars("aeiounuAEIOUNU")

DecomposedMark == Chars("{'}{'}{'}{'}{'}{~}{:}{'}{'}{'}{'}{'}{~}{:}")

\* unicodedata.category(c) = 'Mn'
CategoryMn == {"{'}", "{~}", "{:}"}

\* characters with a canonical decomposition into one other character:
\* U+2000 -> U+2002, U+2001 -> U+2003
Singletons == Chars("{S0}{S1}")

DecomposedSingle == Chars("{S2}{S3}")

\* str.isspace / regex \s: U+0009..U+000D, U+001C..U+0020, U+0085, U+00A0,
\* U+1680, U+2000..U+200A, U+2028, U+2029, U+202F, U+205F, U+3000
Whitespace ==
    {" ", "\t", "\n", "\r", "\f", "{VT}", "{FS}", "{GS}", "{RS}", "{US}",
     "{NL}", "{NB}", "{OG}", "{S0}", "{S1}", "{S2}", "{S3}", "{S4}", "{S5}",
     "{S6}", "{S7}", "{S8}", "{S9}", "{SA}", "{LS}", "{PS}", "{NN}", "{MM}",
     "{IS}"}

\* regex \d
Digits == {"0", "1", "2", "3", "4", "5", "6", "7", "8", "9"}

TableIndex(table, c) == CHOOSE i \in 1..Len(table) : table[i] = c

\* str.lower, one character
lower_char(c) ==
    IF \E i \in 1..Len(UpperChars) : UpperChars[i] = c
    THEN LowerChars[TableIndex(UpperChars, c)]
    ELSE c

lower(cs) == [i \in 1..Len(cs) |-> lower_char(cs[i])]

\* unicodedata.normalize('NFD', .), one character
nfd_char(c) ==
    IF \E i \in 1..Len(Precomposed) : Precomposed[i] = c
    THEN <<DecomposedBase[TableIndex(Precomposed, c)],
           DecomposedMark[TableIndex(Precomposed, c)]>>
    ELSE IF \E i \in 1..Len(Singletons) : Singletons[i] = c
    THEN <<DecomposedSingle[TableIndex(Singletons, c)]>>
    ELSE <<c>>

nfd(cs) == Flatten([i \in 1..Len(cs) |-> nfd_char(cs[i])])

\* str.strip: drop leading and trailing whitespace
strip(cs) ==
    LET keep == {i \in 1..Len(cs) : cs[i] \notin Whitespace}
    IN  IF keep = {} THEN <<>> ELSE SubSeq(cs, Min(keep), Max(keep))

\* re.sub(r'\s+', ' ', .): every maximal run of whitespace becomes one space
collapse_ws(cs) ==
    LET first == {i \in 1..Len(cs) :
                     cs[i] \notin Whitespace \/ i = 1 \/ cs[i - 1] \notin Whitespace}
    IN  Flatten([i \in 1..Len(cs) |->
                   IF i \notin first THEN <<>>
                   ELSE IF cs[i] \in Whitespace THEN <<" ">> ELSE <<cs[i]>>])

quitar_acentos_chars(cs) == SelectSeq(nfd(cs), LAMBDA c : c \notin CategoryMn)

quitar_acentos(str) == Str(quitar_acentos_chars(Chars(str)))

norm_chars(cs) == collapse_ws(quitar_acentos_chars(lower(strip(cs))))

norm(str) == Str(norm_chars(Chars(str)))

\* _NUM_PREFIX.sub('', .): ^\s*(\d+[\.\)]\s*|\d+\s*-\s*) removed when it matches
SkipWhile(cs, from, S) ==
    LET stop == {i \in from..Len(cs) : cs[i] \notin S}
    IN  IF stop = {} THEN Len(cs) + 1 ELSE Min(stop)

strip_num_prefix(cs) ==
    LET d0 == SkipWhile(cs, 1, Whitespace)        \* first digit
        d1 == SkipWhile(cs, d0, Digits)           \* first char after \d+
        w1 == SkipWhile(cs, d1, Whitespace)       \* after \d+\s*
    IN  IF d1 = d0 THEN cs
        ELSE IF d1 <= Len(cs) /\ cs[d1] \in {".", ")"}
             THEN SubSeq(cs, SkipWhile(cs, d1 + 1, Whitespace), Len(cs))
        ELSE IF w1 <= Len(cs) /\ cs[w1] = "-"
             THEN SubSeq(cs, SkipWhile(cs, w1 + 1, Whitespace), Len(cs))
        ELSE cs

base_title(str) == Str(norm_chars(strip_num_prefix(Chars(str))))

(***************************************************************************)
(* Heading styles and block extraction                                     *)
(***************************************************************************)
DigitChars == Chars("0123456789")

RECURSIVE to_int(_)
to_int(ds) ==
    IF ds = <<>> THEN 0
    ELSE 10 * to_int(SubSeq(ds, 1, Len(ds) - 1))
         + (CHOOSE d \in 0..9 : DigitChars[d + 1] = ds[Len(ds)])

HasAt(cs, p, word) ==
    /\ p + Len(word) - 1 <= Len(cs)
    /\ SubSeq(cs, p, p + Len(word) - 1) = word

WordHeading == Chars("heading")

WordTitulo == Chars("titulo")

WordTituloAcento == Chars("t{i'}tulo")

\* re.search(r'(heading|titulo|t{i'}tulo)\s*(\d+)', s) on the characters
\* cs of s: <<matched, level>>, the level being 0 without a match
buscar_titulo(cs) ==
    LET \* first position after the word that starts at p, 0 if none does
        word_end == [p \in 1..Len(cs) |->
                        IF HasAt(cs, p, WordHeading) THEN p + 7
                        ELSE IF HasAt(cs, p, WordTitulo) \/ HasAt(cs, p, WordTituloAcento)
                             THEN p + 6
                        ELSE 0]
        digits_from == [p \in 1..Len(cs) |->
                           IF word_end[p] = 0 THEN 0
                           ELSE SkipWhile(cs, word_end[p], Whitespace)]
        matches == {p \in 1..Len(cs) :
                       /\ digits_from[p] # 0
                       /\ digits_from[p] <= Len(cs)
                       /\ cs[digits_from[p]] \in Digits}
        level_at(d0) == to_int(SubSeq(cs, d0, SkipWhile(cs, d0, Digits) - 1))
    IN  IF matches = {} THEN <<FALSE, 0>>
        ELSE <<TRUE, level_at(digits_from[Min(matches)])>>

estilo_es_titulo(style_name) ==
    IF style_name = "" THEN <<FALSE, 0>>
    ELSE buscar_titulo(norm_chars(Chars(style_name)))

\* A document body is the sequence iter_block_items yields:
\* <<"p", style name, text>> for a paragraph, <<"t", rows>> for a table.
tabla_2d(rows) ==
    [r \in 1..Len(rows) |->
        [c \in 1..Len(rows[r]) |-> Str(strip(Chars(rows[r][c])))]]

bloque_de_parrafo(estilo, txt) ==
    IF estilo[1] /\ txt # "" /\ 1 <= estilo[2] /\ estilo[2] <= 6
    THEN <<<<"h", estilo[2], txt>>>>
    ELSE IF txt # "" THEN <<<<"p", 0, txt>>>>
    ELSE <<>>

bloque_de_tabla(t2d) ==
    IF \E r \in 1..Len(t2d) : \E c \in 1..Len(t2d[r]) : t2d[r][c] # ""
    THEN <<<<"t", 0, t2d>>>>
    ELSE <<>>

extraer_item(item) ==
    IF item[1] = "p"
    THEN bloque_de_parrafo(estilo_es_titulo(item[2]), Str(strip(Chars(item[3]))))
    ELSE bloque_de_tabla(tabla_2d(item[2]))

\* Blocks <<"h", level, text>>, <<"p", 0, text>>, <<"t", 0, rows>> of a
\* document that opened; the caller decides what a failed open does.
_extraer_bloques(body) == Flatten([i \in 1..Len(body) |-> extraer_item(body[i])])

(***************************************************************************)
(* Whitelist                                                               *)
(***************************************************************************)
H1_ALLOW_TITLES ==
  {
    "Introducci{o'}n",
    "Diagn{o'}stico estrat{e'}gico",
    "Misi{o'}n, visi{o'}n y valores de la carrera",
    "Objetivos estrat{e'}gicos",
    "Anexos (enlaces a documentos relevantes)",
    "Conclusiones",
    "Bibliograf{i'}a"
  }

H1_ALLOW == {base_title(t) : t \in H1_ALLOW_TITLES}

H2_ALLOW_TITLES ==
  {
    "An{a'}lisis FODA",
    "An{a'}lisis PESTEL",
    "Matriz Ansoff",
    "Misi{o'}n",
    "Visi{o'}n",
    "Valores",
    "Perfil profesional y perfil de egreso",
    "Misionalidad y desarrollo humano integral",
    "Educaci{o'}n para el futuro",
    "Ciudadan{i'}a global, internacionalizaci{o'}n y relacionamiento estrat{e'}gico",
    "Innovaci{o'}n, emprendimiento y sostenibilidad",
    "Otros indicadores relacionados con la Investigaci{o'}n"
  }

H2_ALLOW == {base_title(t) : t \in H2_ALLOW_TITLES}

H3_ALLOW_TITLES ==
  {
    "01. Plan de formaci{o'}n integral del estudiante",
    "06. Plan de admisi{o'}n, acogida y acompa{n~}amiento acad{e'}mico de estudiantes",
    "23. Plan de seguimiento y mejora de indicadores del perfil docente",
    "25. Plan de formaci{o'}n integral del docente",
    "26. Plan de mejora del proceso de evaluaci{o'}n integral docente",
    "Otras estrategias planificadas por la carrera relacionadas con la l{i'}nea estrat{e'}gica 1",
    "03. Plan implantaci{o'}n del marco de competencias UTPL",
    "04. Plan de prospectiva y creaci{o'}n de nueva oferta",
    "07. Plan de acciones curriculares para el fortalecimiento de las competencias gen{e'}ricas",
    "11. Plan de fortalecimiento de pr{a'}cticas preprofesionales y proyectos de vinculaci{o'}n",
    "12. Plan de fortalecimiento de criterios para la evaluaci{o'}n de la calidad de carreras y programas acad{e'}micos",
    "13. Plan de acciones curriculares para el fortalecimiento de la empleabilidad del graduado UTPL",
    "16. Plan de mejora del proceso de elaboraci{o'}n y seguimiento de planes docentes",
    "18. Plan de mejora de ambientes de aprendizaje",
    "19. Plan de mejora de evaluaci{o'}n de los aprendizajes",
    "20. Plan de mejora del proceso de integraci{o'}n curricular",
    "21. Plan de mejora del proceso de titulaci{o'}n",
    "22. Plan de seguimiento y mejora de la labor tutorial",
    "Otras estrategias planificadas por la carrera relacionadas con la l{i'}nea estrat{e'}gica 2",
    "08. Plan de internacionalizaci{o'}n del curr{i'}culo",
    "24. Plan de intervenci{o'}n de personal acad{e'}mico en territorio",
    "Otras estrategias planificadas por la carrera relacionadas con la l{i'}nea estrat{e'}gica 3",
    "05. Plan de acciones acad{e'}micas orientadas a la comunicaci{o'}n y promoci{o'}n de la oferta",
    "09. Plan de innovaci{o'}n educativa",
    "10. Plan de implantaci{o'}n de metodolog{i'}as activas en el curr{i'}culo",
    "28. Plan de formaci{o'}n de l{i'}deres acad{e'}micos",
    "29. Plan de posicionamiento institucional en innovaci{o'}n educativa",
    "30. Plan de investigaci{o'}n sobre innovaci{o'}n educativa, EaD, MP",
    "Otras estrategias planificadas por la carrera relacionadas con la l{i'}nea estrat{e'}gica 4"
  }

H3_ALLOW == {base_title(t) : t \in H3_ALLOW_TITLES}

allowed_by_whitelist(level, text) ==
    LET bt == base_title(text)
    IN  IF level = 1 THEN bt \in H1_ALLOW
        ELSE IF level = 2 THEN bt \in H2_ALLOW
        ELSE IF level = 3 THEN bt \in H3_ALLOW
        ELSE FALSE

(***************************************************************************)
(* _rangos_por_titulo                                                      *)
(***************************************************************************)
\* heads: <<0-based block index, block>> of every heading of level 1..3
heads_of(bl) ==
    LET at == {i \in 1..Len(bl) : bl[i][1] = "h" /\ 1 <= bl[i][2] /\ bl[i][2] <= 3}
        Nth(k) == CHOOSE i \in at : Cardinality({o \in at : o < i}) = k - 1
    IN  [k \in 1..Cardinality(at) |-> <<Nth(k) - 1, bl[Nth(k)]>>]

\* variant: the level test is applied even when niveles is empty
include_heading_level_required(lvl, txt, niv, titulos_norm, whitelist) ==
    /\ lvl \in niv
    /\ (titulos_norm # {} => base_title(txt) \in titulos_norm)
    /\ (whitelist => allowed_by_whitelist(lvl, txt))

include_heading(lvl, txt, niv, titulos_norm, whitelist) ==
    /\ (niv # {} => lvl \in niv)
    /\ (titulos_norm # {} => base_title(txt) \in titulos_norm)
    /\ (whitelist => allowed_by_whitelist(lvl, txt))

\* variant: a later head closes the range when its level is >= lvl
range_end_deeper(bl, heads, k, lvl) ==
    LET closing == {kk \in (k + 1)..Len(heads) : heads[kk][2][2] >= lvl}
    IN  IF closing = {} THEN Len(bl) ELSE heads[Min(closing)][1]

\* variant: a later head closes the range only when its level is < lvl
range_end_strict(bl, heads, k, lvl) ==
    LET closing == {kk \in (k + 1)..Len(heads) : heads[kk][2][2] < lvl}
    IN  IF closing = {} THEN Len(bl) ELSE heads[Min(closing)][1]

\* variant: the position in heads is returned instead of the block index
range_end_head_index(bl, heads, k, lvl) ==
    LET closing == {kk \in (k + 1)..Len(heads) : heads[kk][2][2] <= lvl}
    IN  IF closing = {} THEN Len(bl) ELSE Min(closing) - 1

\* j: block index of the first later head of level <= lvl, else len(bloques)
range_end(bl, heads, k, lvl) ==
    LET closing == {kk \in (k + 1)..Len(heads) : heads[kk][2][2] <= lvl}
    IN  IF closing = {} THEN Len(bl) ELSE heads[Min(closing)][1]

_rangos_por_titulo(bl, niv, titulos_norm, whitelist) ==
    LET heads == heads_of(bl)
        one(k) ==
            LET i == heads[k][1]
                lvl == heads[k][2][2]
                txt == heads[k][2][3]
            IN  IF include_heading(lvl, txt, niv, titulos_norm, whitelist)
                THEN <<<<i, range_end(bl, heads, k, lvl), lvl, txt>>>>
                ELSE <<>>
    IN  Flatten([k \in 1..Len(heads) |-> one(k)])

(***************************************************************************)
(* Bounds and input sets                                                   *)
(***************************************************************************)
MaxLen == 3       \* longest input string of norm

MaxBlocks == 4    \* longest block sequence given to _rangos_por_titulo

StringsOver(alphabet, n) ==
    {Str(cs) : cs \in UNION {[1..k -> alphabet] : k \in 0..n}}

NormAlphabet == {"a", "{A'}", " ", "\t", "{'}", "1"}

BlockAlphabet ==
    { <<"h", 1, "A">>, <<"h", 2, "B">>, <<"h", 1, "C">>,
      <<"h", 1, "1. Introducci{o'}n">>, <<"h", 2, "Misi{o'}n">>, <<"h", 3, "B">>,
      <<"h", 4, "A">>, <<"p", 0, "x">> }

BlockSeqs == UNION {[1..k -> BlockAlphabet] : k \in 0..MaxBlocks}

NivelesChoices == {{}, {2}, {1, 2}}

TitulosNormChoices == {{}, {base_title("b"), base_title("Introducci{o'}n")}}

\* variables a call does not use keep their initial value
NormIdle == s = "" /\ n1 = "" /\ n2 = ""

RangosIdle == bloques = <<>> /\ rangos = <<>>

FilterIdle ==
    /\ niveles = {} /\ titulos_exactos_norm = {} /\ enforce_whitelist = FALSE

FilesIdle ==
    /\ archivos = <<>> /\ titulos = <<>> /\ group_level = 0
    /\ objetivos_norm = {} /\ idx = 0 /\ doc = <<>> /\ ws = <<>>
    /\ tabla_idx = 0 /\ all_titles_norm = {} /\ sample_visible_for = <<>>
    /\ target_keys = {} /\ key_order = <<>> /\ composers = <<>> /\ out = <<>>

filesVars == <<archivos, titulos, group_level, objetivos_norm, idx, doc, ws,
               tabla_idx, all_titles_norm, sample_visible_for, target_keys,
               key_order, composers, out>>

(***************************************************************************)
(* norm applied to an input and to its own result                          *)
(***************************************************************************)
InitNorm ==
    /\ pc = "norm"
    /\ s \in StringsOver(NormAlphabet, MaxLen)
    /\ n1 = "" /\ n2 = ""
    /\ RangosIdle /\ FilterIdle /\ FilesIdle

Norm ==
    /\ pc = "norm"
    /\ n1' = norm(s)
    /\ pc' = "norm_again"
    /\ UNCHANGED <<s, n2, bloques, rangos, niveles, titulos_exactos_norm,
                   enforce_whitelist, filesVars>>

NormAgain ==
    /\ pc = "norm_again"
    /\ n2' = norm(n1)
    /\ pc' = "norm_done"
    /\ UNCHANGED <<s, n1, bloques, rangos, niveles, titulos_exactos_norm,
                   enforce_whitelist, filesVars>>

NextNorm == Norm \/ NormAgain

SpecNorm == InitNorm /\ [][NextNorm]_vars

(***************************************************************************)
(* One call of _rangos_por_titulo                                          *)
(***************************************************************************)
InitRangos ==
    /\ pc = "rangos"
    /\ bloques \in BlockSeqs
    /\ niveles \in NivelesChoices
    /\ titulos_exactos_norm \in TitulosNormChoices
    /\ enforce_whitelist \in BOOLEAN
    /\ rangos = <<>>
    /\ NormIdle /\ FilesIdle

RangosPorTitulo ==
    /\ pc = "rangos"
    /\ rangos' = _rangos_por_titulo(bloques, niveles, titulos_exactos_norm,
                                    enforce_whitelist)
    /\ pc' = "rangos_done"
    /\ UNCHANGED <<s, n1, n2, bloques, niveles, titulos_exactos_norm,
                   enforce_whitelist, filesVars>>

NextRangos == RangosPorTitulo

SpecRangos == InitRangos /\ [][NextRangos]_vars

(***************************************************************************)
(* procesar: one merged document and the table sheet                       *)
(***************************************************************************)
\* [(a['name'], a['content']) for a in archivos if a.get('content')]
entradas(arch) == SelectSeq(arch, LAMBDA a : a.content.bytes # "empty")

\* Document(io.BytesIO(doc_bytes)) raises when the bytes are not a document
abre(content) == content.bytes = "docx"

\* set(base_title(t) for t in titulos if (t or '').strip())
titulos_norm_de(ts) ==
    {base_title(ts[i]) : i \in {j \in 1..Len(ts) : strip(Chars(ts[j])) # <<>>}}

clamp_level(lvl) ==
    LET up == IF lvl > 1 THEN lvl ELSE 1
    IN  IF up < 6 THEN up ELSE 6

\* bloques[i_start + 1:i_end]
contenido(bl, i_start, i_end) == SubSeq(bl, i_start + 2, i_end)

\* the cells of the rows in the order the loops visit them: <<r_i, c_i, val>>
celdas(rows) ==
    Flatten([r \in 1..Len(rows) |->
                [c \in 1..Len(rows[r]) |-> <<r, c, rows[r][c]>>]])

\* Table.cell(r_i - 1, c_i - 1) of a table made by
\* add_table(rows=len(rows), cols=len(rows[0])): the cell at
\* col_idx + row_idx * cols of the table's len(rows) * cols cells
cell_idx(rows, r, c) == (c - 1) + (r - 1) * Len(rows[1])

\* the position in cs of the first cell whose index is past the last cell
\* of the table, where Table.cell raises IndexError; Len(cs) + 1 when
\* there is none
primera_fuera(rows, cs) ==
    Min({n \in 1..Len(cs) :
            cell_idx(rows, cs[n][1], cs[n][2]) >= Len(rows) * Len(rows[1])}
        \cup {Len(cs) + 1})

celda_falla(rows) == primera_fuera(rows, celdas(rows))

\* no tabla.cell(...) of the table raises
cabe(rows) == celda_falla(rows) > Len(celdas(rows))

\* the text of the cell at index p after the assignments cs, in order
texto_en(rows, cs, p) ==
    IF \E n \in 1..Len(cs) : cell_idx(rows, cs[n][1], cs[n][2]) = p
    THEN cs[Max({n \in 1..Len(cs) : cell_idx(rows, cs[n][1], cs[n][2]) = p})][3]
    ELSE ""

tabla_escrita(rows, cs) ==
    [r \in 1..Len(rows) |->
        [c \in 1..Len(rows[1]) |-> texto_en(rows, cs, cell_idx(rows, r, c))]]

\* the table in the part: len(rows) x len(rows[0]) cells, each holding the
\* last value assigned to it, empty when none was
add_table(rows) == tabla_escrita(rows, celdas(rows))

\* a block of the range as the part holds it
en_part(b) == IF b[1] = "t" THEN <<"t", 0, add_table(b[3])>> ELSE b

en_part_todos(bs) == [n \in 1..Len(bs) |-> en_part(bs[n])]

\* variant: no separator paragraph after the range
rango_part_sin_separador(bl, rango) ==
    <<<<"h", clamp_level(rango[3]), rango[4]>>>>
    \o en_part_todos(SelectSeq(contenido(bl, rango[1], rango[2]),
                               LAMBDA b : b[1] = "p" \/ (b[1] = "t" /\ b[3] # <<>>)))

\* heading, paragraphs and tables of one range, then the blank separator
rango_part(bl, rango) ==
    <<<<"h", clamp_level(rango[3]), rango[4]>>>>
    \o en_part_todos(SelectSeq(contenido(bl, rango[1], rango[2]),
                               LAMBDA b : b[1] = "p" \/ (b[1] = "t" /\ b[3] # <<>>)))
    \o <<<<"p", 0, "">>>>

tablas_de(bl, rango) ==
    SelectSeq(contenido(bl, rango[1], rango[2]),
              LAMBDA b : b[1] = "t" /\ b[3] # <<>>)

filas_de(name, rango, cs, n, t_idx) ==
    [m \in 1..n |->
        <<name, rango[4], rango[3], t_idx, cs[m][1], cs[m][2], cs[m][3]>>]

\* ws.append([name, txt, lvl, tabla_idx, r_i, c_i, val]) for every cell, up
\* to the first cell for which tabla.cell raises
tabla_filas(name, rango, rows, t_idx) ==
    filas_de(name, rango, celdas(rows), celda_falla(rows) - 1, t_idx)

\* the tables of the ranges rs in the order the loops meet them, each with
\* its range: <<rango, rows>>
tablas_en_orden(bl, rs) ==
    Flatten([k \in 1..Len(rs) |->
                [t \in 1..Len(tablas_de(bl, rs[k])) |->
                    <<rs[k], tablas_de(bl, rs[k])[t][3]>>]])

\* the position in ts of the first table with a cell off the grid,
\* Len(ts) + 1 when there is none
tabla_falla(ts) ==
    Min({n \in 1..Len(ts) : ~cabe(ts[n][2])} \cup {Len(ts) + 1})

\* the sheet rows of the tables ts up to and including the n-th
filas_hasta(name, ts, n, t0) ==
    Flatten([m \in 1..n |-> tabla_filas(name, ts[m][1], ts[m][2], t0 + m)])

resultado_de(name, part, ts, falla, t0) ==
    [part |-> part,
     raised |-> falla <= Len(ts),
     filas |-> filas_hasta(name, ts, Min({falla, Len(ts)}), t0),
     tabla_idx |-> t0 + Min({falla, Len(ts)})]

tablas_y_resultado(name, part, ts, t0) ==
    resultado_de(name, part, ts, tabla_falla(ts), t0)

\* the loop over rangos of one file, tabla_idx starting at t0; raised when
\* a cell of a table is off its grid, with the sheet rows written until then
archivo_part(name, bl, rs, t0) ==
    tablas_y_resultado(name, Flatten([k \in 1..Len(rs) |-> rango_part(bl, rs[k])]),
                       tablas_en_orden(bl, rs), t0)

ENCABEZADO == <<"Archivo", "T{i'}tulo", "Nivel", "#Tabla", "Fila", "Col", "Valor">>

groupedVars == <<group_level, objetivos_norm, all_titles_norm,
                 sample_visible_for, target_keys, key_order, composers>>

ProcesarStart ==
    /\ pc = "procesar"
    /\ titulos_exactos_norm' = titulos_norm_de(titulos)
    /\ doc' = <<>>
    /\ ws' = <<ENCABEZADO>>
    /\ idx' = 0
    /\ pc' = "procesar_loop"
    /\ UNCHANGED <<s, n1, n2, bloques, rangos, archivos, niveles, titulos,
                   enforce_whitelist, tabla_idx, out, groupedVars>>

\* one iteration of the loop over the files; a file that does not open
\* raises out of procesar
ProcesarArchivo ==
    /\ pc = "procesar_loop"
    /\ idx < Len(entradas(archivos))
    /\ \E a \in {entradas(archivos)[idx + 1]} :
          IF ~abre(a.content)
          THEN /\ pc' = "raised"
               /\ UNCHANGED <<bloques, rangos, tabla_idx, ws, doc, idx>>
          ELSE \E bl \in {_extraer_bloques(a.content.body)} :
               \E rs \in {_rangos_por_titulo(bl, niveles, titulos_exactos_norm,
                                             enforce_whitelist)} :
               \E res \in {archivo_part(a.name, bl, rs, 0)} :
                   /\ bloques' = bl
                   /\ rangos' = rs
                   /\ tabla_idx' = res.tabla_idx
                   /\ ws' = ws \o res.filas
                   /\ IF res.raised
                      THEN pc' = "raised" /\ UNCHANGED <<doc, idx>>
                      ELSE /\ doc' = doc \o res.part
                           /\ idx' = idx + 1
                           /\ pc' = "procesar_loop"
    /\ UNCHANGED <<s, n1, n2, archivos, niveles, titulos, enforce_whitelist,
                   titulos_exactos_norm, out, groupedVars>>

ProcesarReturn ==
    /\ pc = "procesar_loop"
    /\ idx = Len(entradas(archivos))
    /\ out' = [f \in {"unificado.docx", "tablas.xlsx"} |->
                  IF f = "unificado.docx" THEN doc ELSE ws]
    /\ pc' = "procesar_done"
    /\ UNCHANGED <<s, n1, n2, bloques, rangos, archivos, niveles, titulos,
                   enforce_whitelist, titulos_exactos_norm, idx, doc, ws,
                   tabla_idx, groupedVars>>

(***************************************************************************)
(* procesar_grouped: one document per title of group_level                 *)
(***************************************************************************)
es_titulo_del_nivel(b, level, whitelist) ==
    /\ b[1] = "h" /\ b[2] = level
    /\ ~(whitelist /\ ~allowed_by_whitelist(b[2], b[3]))

\* pass 1 bookkeeping for the qualifying headings hits of one file
registrar(bl, hits, titles, visible) ==
    LET nuevos == {base_title(bl[i][3]) : i \in hits} \ DOMAIN visible
        primero(k) == Min({i \in hits : base_title(bl[i][3]) = k})
    IN  << titles \cup {base_title(bl[i][3]) : i \in hits},
           [k \in DOMAIN visible \cup nuevos |->
               IF k \in DOMAIN visible THEN visible[k] ELSE bl[primero(k)][3]] >>

\* pass 1 over one file: <<all_titles_norm, sample_visible_for>> afterwards
descubrir(bl, level, whitelist, titles, visible) ==
    registrar(bl,
              {i \in 1..Len(bl) :
                  /\ es_titulo_del_nivel(bl[i], level, whitelist)
                  /\ strip(Chars(bl[i][3])) # <<>>},
              titles, visible)

\* the members of a set of 1-based positions as 0-based indices, ascending
en_orden(hits) ==
    [k \in 1..Cardinality(hits) |->
        (CHOOSE i \in hits : Cardinality({o \in hits : o < i}) = k - 1) - 1]

\* 0-based indices of the occurrences of key in one file, in document order
indices_de(bl, level, whitelist, key) ==
    en_orden({i \in 1..Len(bl) :
                 /\ es_titulo_del_nivel(bl[i], level, whitelist)
                 /\ base_title(bl[i][3]) = key})

\* j_end: the next heading of level <= group_level, else len(bloques)
j_end_de(bl, i_start, level) ==
    LET closing == {j \in (i_start + 1)..(Len(bl) - 1) :
                       bl[j + 1][1] = "h" /\ bl[j + 1][2] <= level}
    IN  IF closing = {} THEN Len(bl) ELSE Min(closing)

\* the tables of one occurrence that reach the part: if rows and rows[0]
grupo_tablas(bl, i_start, level) ==
    SelectSeq(contenido(bl, i_start, j_end_de(bl, i_start, level)),
              LAMBDA b : b[1] = "t" /\ b[3] # <<>> /\ b[3][1] # <<>>)

\* every t.cell(r_i, c_i) of the occurrence lies on its table's grid
grupo_cabe(bl, i_start, level) ==
    \A n \in 1..Len(grupo_tablas(bl, i_start, level)) :
        cabe(grupo_tablas(bl, i_start, level)[n][3])

\* the part of one occurrence: heading, then paragraphs and tables
grupo_part(bl, i_start, level) ==
    <<<<"h", clamp_level(level), bl[i_start + 1][3]>>>>
    \o en_part_todos(
           SelectSeq(contenido(bl, i_start, j_end_de(bl, i_start, level)),
                     LAMBDA b : \/ b[1] = "p"
                                \/ (b[1] = "t" /\ b[3] # <<>> /\ b[3][1] # <<>>)))

tiene_composer(comps, key) == \E c \in 1..Len(comps) : comps[c][1] = key

\* get_or_make_composer: a new empty document on first use of the key
get_or_make_composer(comps, key) ==
    IF tiene_composer(comps, key) THEN comps ELSE Append(comps, <<key, <<>>>>)

\* comp.append(part)
comp_append(body, part) == body \o part

presentes_de(bl, keys, level, whitelist) ==
    SelectSeq(keys, LAMBDA k : indices_de(bl, level, whitelist, k) # <<>>)

\* the occurrences the loops of pass 2 meet in one file, in their order:
\* <<key, i_start>>, key by key
pasos_de(bl, presentes, level, whitelist) ==
    Flatten([n \in 1..Len(presentes) |->
                [m \in 1..Len(indices_de(bl, level, whitelist, presentes[n])) |->
                    <<presentes[n],
                      indices_de(bl, level, whitelist, presentes[n])[m]>>]])

\* the position in pasos of the first occurrence with a table cell off its
\* grid, Len(pasos) + 1 when there is none
paso_falla(bl, pasos, level) ==
    Min({n \in 1..Len(pasos) : ~grupo_cabe(bl, pasos[n][2], level)}
        \cup {Len(pasos) + 1})

\* comp.append(part) on the composer of key
append_en(comps, key, part) ==
    [c \in 1..Len(comps) |->
        IF comps[c][1] = key
        THEN <<key, comp_append(comps[c][2], part)>>
        ELSE comps[c]]

\* the composers after the first n occurrences of pasos
RECURSIVE append_pasos(_, _, _, _, _)
append_pasos(comps, bl, pasos, n, level) ==
    IF n = 0 THEN comps
    ELSE append_en(get_or_make_composer(
                       append_pasos(comps, bl, pasos, n - 1, level), pasos[n][1]),
                   pasos[n][1],
                   grupo_part(bl, pasos[n][2], level))

agrupar_pasos(comps, bl, pasos, falla, level) ==
    [raised |-> falla <= Len(pasos),
     composers |->
        IF falla <= Len(pasos)
        THEN get_or_make_composer(append_pasos(comps, bl, pasos, falla - 1, level),
                                  pasos[falla][1])
        ELSE append_pasos(comps, bl, pasos, Len(pasos), level)]

agrupar_con(comps, bl, pasos, level) ==
    agrupar_pasos(comps, bl, pasos, paso_falla(bl, pasos, level), level)

\* pass 2 over one file: for key in target_keys, in the set's iteration
\* order, every occurrence of the key; raised when a cell of a table is off
\* its grid, with the composers as they are at that point
agrupar_archivo(comps, bl, keys, level, whitelist) ==
    agrupar_con(comps, bl,
                pasos_de(bl, presentes_de(bl, keys, level, whitelist), level,
                         whitelist),
                level)

UNSAFE == {"\\", "/", ":", "*", "?", "\"", "<", ">", "|"}

\* re.sub(r'[\\/:*?"<>|]+', '_', nice).strip()
safe_de(nice) ==
    LET cs == Chars(nice)
        first == {i \in 1..Len(cs) :
                     cs[i] \notin UNSAFE \/ i = 1 \/ cs[i - 1] \notin UNSAFE}
    IN  Str(strip(Flatten([i \in 1..Len(cs) |->
                  IF i \notin first THEN <<>>
                  ELSE IF cs[i] \in UNSAFE THEN <<"_">> ELSE <<cs[i]>>])))

filename_de(key_norm, visible) ==
    LET nice == IF key_norm \in DOMAIN visible THEN visible[key_norm] ELSE key_norm
        safe == IF safe_de(nice) # "" THEN safe_de(nice)
                ELSE IF key_norm # "" THEN key_norm ELSE "titulo"
    IN  safe \o ".docx"

\* out[filename] = bytes, in the insertion order of composers
serializa(comps, keys, visible) ==
    LET kept == {c \in 1..Len(comps) : comps[c][1] \in keys}
        names == {filename_de(comps[c][1], visible) : c \in kept}
        ultimo(f) == Max({c \in kept : filename_de(comps[c][1], visible) = f})
    IN  [f \in names |-> comps[ultimo(f)][2]]

Perms(S) ==
    {f \in [1..Cardinality(S) -> S] :
        \A i, j \in 1..Cardinality(S) : i # j => f[i] # f[j]}

procesarVars == <<niveles, titulos_exactos_norm, rangos, doc, ws, tabla_idx>>

GroupedStart ==
    /\ pc = "grouped"
    /\ objetivos_norm' = titulos_norm_de(titulos)
    /\ composers' = <<>>
    /\ all_titles_norm' = {}
    /\ sample_visible_for' = <<>>
    /\ idx' = 0
    /\ pc' = "grouped_discover"
    /\ UNCHANGED <<s, n1, n2, bloques, archivos, titulos, enforce_whitelist,
                   group_level, target_keys, key_order, out, procesarVars>>

\* pass 1, one file
GroupedDescubrir ==
    /\ pc = "grouped_discover"
    /\ idx < Len(entradas(archivos))
    /\ \E a \in {entradas(archivos)[idx + 1]} :
          IF ~abre(a.content)
          THEN /\ pc' = "raised"
               /\ UNCHANGED <<bloques, all_titles_norm, sample_visible_for, idx>>
          ELSE \E bl \in {_extraer_bloques(a.content.body)} :
               \E res \in {descubrir(bl, group_level, enforce_whitelist,
                                     all_titles_norm, sample_visible_for)} :
                   /\ bloques' = bl
                   /\ all_titles_norm' = res[1]
                   /\ sample_visible_for' = res[2]
                   /\ idx' = idx + 1
                   /\ pc' = "grouped_discover"
    /\ UNCHANGED <<s, n1, n2, archivos, titulos, enforce_whitelist, group_level,
                   objetivos_norm, target_keys, key_order, composers, out,
                   procesarVars>>

\* target_keys; the order in which the set is iterated is not determined
GroupedTargets ==
    /\ pc = "grouped_discover"
    /\ idx = Len(entradas(archivos))
    /\ target_keys' = IF objetivos_norm # {} THEN objetivos_norm
                      ELSE all_titles_norm
    /\ key_order' \in Perms(target_keys')
    /\ idx' = 0
    /\ pc' = "grouped_assemble"
    /\ UNCHANGED <<s, n1, n2, bloques, archivos, titulos, enforce_whitelist,
                   group_level, objetivos_norm, all_titles_norm,
                   sample_visible_for, composers, out, procesarVars>>

\* pass 2, one file
GroupedArchivo ==
    /\ pc = "grouped_assemble"
    /\ idx < Len(entradas(archivos))
    /\ \E a \in {entradas(archivos)[idx + 1]} :
          IF ~abre(a.content)
          THEN /\ pc' = "raised"
               /\ UNCHANGED <<bloques, composers, idx>>
          ELSE \E bl \in {_extraer_bloques(a.content.body)} :
               \E res \in {agrupar_archivo(composers, bl, key_order,
                                            group_level, enforce_whitelist)} :
                   /\ bloques' = bl
                   /\ composers' = res.composers
                   /\ IF res.raised
                      THEN pc' = "raised" /\ UNCHANGED idx
                      ELSE idx' = idx + 1 /\ pc' = "grouped_assemble"
    /\ UNCHANGED <<s, n1, n2, archivos, titulos, enforce_whitelist, group_level,
                   objetivos_norm, all_titles_norm, sample_visible_for,
                   target_keys, key_order, out, procesarVars>>

GroupedReturn ==
    /\ pc = "grouped_assemble"
    /\ idx = Len(entradas(archivos))
    /\ out' = serializa(composers, target_keys, sample_visible_for)
    /\ pc' = "grouped_done"
    /\ UNCHANGED <<s, n1, n2, bloques, archivos, titulos, enforce_whitelist,
                   group_level, objetivos_norm, all_titles_norm,
                   sample_visible_for, target_keys, key_order, composers, idx,
                   procesarVars>>

(***************************************************************************)
(* Input files                                                             *)
(***************************************************************************)
MaxFiles == 2     \* most files in one batch

Docx(name, body) == [name |-> name, content |-> [bytes |-> "docx", body |-> body]]

FileIntro ==
    Docx("file.docx",
         << <<"p", "Heading 1", "Intro">>, <<"p", "Normal", "hello">>,
            <<"p", "Heading 2", "Sub">>, <<"t", << <<"a", "b">> >> >> >>)

FileA ==
    Docx("a.docx",
         << <<"p", "T{i'}tulo 1", "Introducci{o'}n">>, <<"p", "Normal", " uno ">>,
            <<"t", << <<"c">>, <<"d">> >> >>, <<"p", "Normal", "  ">>,
            <<"p", "Titulo 2", "Misi{o'}n">>, <<"p", "Heading 7", "dos">>,
            <<"p", "Heading 1", "2. Introducci{o'}n">>, <<"p", "Normal", "cuatro">>,
            <<"p", "Heading 2", "MISI{O'}N">> >>)

FileB ==
    Docx("b.docx",
         << <<"p", "heading 1", "1. INTRODUCCI{O'}N">>, <<"t", << <<"e">> >> >>,
            <<"p", "Heading 1", "A/B">>, <<"p", "Normal", "tres">>,
            <<"p", "Heading 1", "A:B">>, <<"t", << <<" ">> >> >> >>)

\* a table whose second row is shorter than its first, and one whose
\* second row is longer while a third row follows
FileCorta ==
    Docx("corta.docx",
         << <<"p", "Heading 1", "Corta">>,
            <<"t", << <<"a", "b">>, <<"c">> >> >>,
            <<"t", << <<"a">>, <<"b", "c">>, <<"d">> >> >> >>)

\* a table whose last row is longer than its first
FileLarga ==
    Docx("larga.docx",
         << <<"p", "Heading 1", "Larga">>,
            <<"t", << <<"a">>, <<"b", "c">> >> >> >>)

FileGarbage == [name |-> "bad.docx", content |-> [bytes |-> "garbage", body |-> <<>>]]

FileEmpty == [name |-> "empty.docx", content |-> [bytes |-> "empty", body |-> <<>>]]

Files == {FileIntro, FileA, FileB, FileCorta, FileLarga, FileGarbage, FileEmpty}

Batches == UNION {[1..k -> Files] : k \in 0..MaxFiles}

TitulosChoices == {<<>>, <<"Introducci{o'}n", " ">>, <<"a/b", "2) Sub">>}

GroupLevels == {1, 2}

Init ==
    /\ archivos \in Batches
    /\ titulos \in TitulosChoices
    /\ enforce_whitelist \in BOOLEAN
    /\ \/ pc = "procesar" /\ niveles \in NivelesChoices /\ group_level = 1
       \/ pc = "grouped" /\ niveles = {} /\ group_level \in GroupLevels
    /\ titulos_exactos_norm = {} /\ objetivos_norm = {}
    /\ idx = 0 /\ doc = <<>> /\ ws = <<>> /\ tabla_idx = 0
    /\ all_titles_norm = {} /\ sample_visible_for = <<>>
    /\ target_keys = {} /\ key_order = <<>> /\ composers = <<>> /\ out = <<>>
    /\ NormIdle /\ RangosIdle

Next ==
    \/ ProcesarStart
    \/ ProcesarArchivo
    \/ ProcesarReturn
    \/ GroupedStart
    \/ GroupedDescubrir
    \/ GroupedTargets
    \/ GroupedArchivo
    \/ GroupedReturn

Spec == Init /\ [][Next]_vars

(***************************************************************************)
(* Properties of norm                                                      *)
(***************************************************************************)
\* C8: norm is idempotent: norm(norm(s)) = norm(s) for every input s.
C8_NormIdempotent == pc = "norm_done" => n2 = n1

(***************************************************************************)
(* Properties of _rangos_por_titulo                                        *)
(***************************************************************************)
IsHead13(b) == b[1] = "h" /\ 1 <= b[2] /\ b[2] <= 3

Starts(rs) == {rs[r][1] : r \in 1..Len(rs)}

\* 0-based indices of the headings of level 1..3 after i whose level is <= L
LaterClosers(i, L) ==
    {j \in (i + 1)..(Len(bloques) - 1) :
        IsHead13(bloques[j + 1]) /\ bloques[j + 1][2] <= L}

NestingExample == << <<"h", 1, "A">>, <<"h", 2, "B">>, <<"p", 0, "x">>, <<"h", 1, "C">> >>

\* C1: every returned range ends (exclusive) at the first later heading of
\* level 1..3 whose level is <= the range's level, qualifying or not, and at
\* len(bloques) when there is none; for [H1(A), H2(B), P(x), H1(C)] without
\* filter the ranges are A = [0,3) and B = [1,3).
C1_RangeEndsAtNextSenior ==
    pc = "rangos_done" =>
        /\ \A r \in 1..Len(rangos) :
              rangos[r][2] = IF LaterClosers(rangos[r][1], rangos[r][3]) = {}
                             THEN Len(bloques)
                             ELSE Min(LaterClosers(rangos[r][1], rangos[r][3]))
        /\ (/\ bloques = NestingExample
            /\ niveles = {} /\ titulos_exactos_norm = {} /\ ~enforce_whitelist)
           => /\ Len(rangos) = 3
              /\ rangos[1] = <<0, 3, 1, "A">>
              /\ rangos[2] = <<1, 3, 2, "B">>

\* a qualifying range is closed by a heading that itself does not qualify
C1_Witness ==
    /\ pc = "rangos_done"
    /\ \E r \in 1..Len(rangos) :
          /\ rangos[r][2] < Len(bloques)
          /\ rangos[r][2] \notin Starts(rangos)
          /\ rangos[r][3] = 2
          /\ bloques[rangos[r][2] + 1][2] = 1

\* C2 as stated: no two ranges of one call overlap.
C2_NoOverlap ==
    pc = "rangos_done" =>
        \A a, b \in 1..Len(rangos) :
            a # b => \/ rangos[a][2] <= rangos[b][1]
                     \/ rangos[b][2] <= rangos[a][1]

\* C2 amended: two ranges of one call are disjoint or nested; a range that
\* starts inside an earlier one has a strictly deeper level and ends no
\* later than it, so ranges of equal level never overlap.
C2_DisjointOrNested ==
    pc = "rangos_done" =>
        \A a, b \in 1..Len(rangos) :
            a < b => \/ rangos[a][2] <= rangos[b][1]
                     \/ /\ rangos[a][1] < rangos[b][1]
                        /\ rangos[b][2] <= rangos[a][2]
                        /\ rangos[b][3] > rangos[a][3]

\* a level-2 range nested in a level-1 range, followed by a disjoint range
C2_Witness ==
    /\ pc = "rangos_done"
    /\ \E a, b, c \in 1..Len(rangos) :
          /\ a < b /\ b < c
          /\ rangos[b][1] < rangos[a][2]
          /\ rangos[a][2] <= rangos[c][1]

Passes(b, niv, tit, wl) ==
    /\ (niv # {} => b[2] \in niv)
    /\ (tit # {} => base_title(b[3]) \in tit)
    /\ (wl => allowed_by_whitelist(b[2], b[3]))

\* C6: a heading of level 1..3 gets a range iff it passes every active
\* restriction, and relaxing one restriction (empty niveles, empty title
\* set, whitelist off) keeps every range start.
C6_FilterConjunction ==
    pc = "rangos_done" =>
        /\ Starts(rangos) =
              {i \in 0..(Len(bloques) - 1) :
                  /\ IsHead13(bloques[i + 1])
                  /\ Passes(bloques[i + 1], niveles, titulos_exactos_norm,
                            enforce_whitelist)}
        /\ Starts(rangos) \subseteq
              Starts(_rangos_por_titulo(bloques, {}, titulos_exactos_norm,
                                        enforce_whitelist))
        /\ Starts(rangos) \subseteq
              Starts(_rangos_por_titulo(bloques, niveles, {}, enforce_whitelist))
        /\ Starts(rangos) \subseteq
              Starts(_rangos_por_titulo(bloques, niveles, titulos_exactos_norm,
                                        FALSE))

\* all three restrictions are active, one heading passes them all, and each
\* relaxation admits a heading the full filter rejects
C6_Witness ==
    /\ pc = "rangos_done"
    /\ niveles # {} /\ titulos_exactos_norm # {} /\ enforce_whitelist
    /\ rangos # <<>>
    /\ Starts(_rangos_por_titulo(bloques, niveles, {}, enforce_whitelist))
          # Starts(rangos)
    /\ Starts(_rangos_por_titulo(bloques, niveles, titulos_exactos_norm, FALSE))
          # Starts(rangos)

\* C10: every range has start < end <= len(bloques), starts at a heading of
\* the range's level and text, and starts are strictly increasing.
C10_RangeWellFormed ==
    pc = "rangos_done" =>
        /\ \A r \in 1..Len(rangos) :
              /\ 0 <= rangos[r][1]
              /\ rangos[r][1] < rangos[r][2]
              /\ rangos[r][2] <= Len(bloques)
              /\ bloques[rangos[r][1] + 1] = <<"h", rangos[r][3], rangos[r][4]>>
        /\ \A r \in 1..(Len(rangos) - 1) : rangos[r][1] < rangos[r + 1][1]

\* several ranges, one of them running to the end of the blocks
C10_Witness ==
    /\ pc = "rangos_done"
    /\ Len(rangos) >= 3
    /\ \E r \in 1..Len(rangos) : rangos[r][2] = Len(bloques)
    /\ \E r \in 1..Len(rangos) : rangos[r][2] < Len(bloques)

(***************************************************************************)
(* Properties of procesar                                                  *)
(***************************************************************************)
RECURSIVE SeqSum(_)
SeqSum(ns) == IF ns = <<>> THEN 0 ELSE Head(ns) + SeqSum(Tail(ns))

DataRows == SubSeq(ws, 2, Len(ws))

CellCount(rows) == SeqSum([r \in 1..Len(rows) |-> Len(rows[r])])

\* cells of the tables of one file that lie inside at least one range,
\* every table taken once
IncludedCells(a) ==
    LET bl == _extraer_bloques(a.content.body)
        rs == _rangos_por_titulo(bl, niveles, titulos_exactos_norm,
                                 enforce_whitelist)
        inside(j) == \E r \in 1..Len(rs) : rs[r][1] < j - 1 /\ j - 1 < rs[r][2]
    IN  SeqSum([j \in 1..Len(bl) |->
                   IF bl[j][1] = "t" /\ inside(j) THEN CellCount(bl[j][3]) ELSE 0])

\* C3: the sheet has one row per cell of each table inside the included
\* sections, each table counted once; for the single file
\* [H1(Intro), P(hello), H2(Sub), Table([[a,b]])] with niveles = {1,2} and no
\* other filter the rows are (file, Sub, 2, 1, 1, a) and (file, Sub, 2, 1, 2, b).
C3_OneRowPerIncludedCell ==
    pc = "procesar_done" =>
        /\ Len(DataRows) =
              SeqSum([f \in 1..Len(entradas(archivos)) |->
                         IncludedCells(entradas(archivos)[f])])
        /\ (/\ archivos = <<FileIntro>>
            /\ niveles = {1, 2} /\ titulos = <<>> /\ ~enforce_whitelist)
           => DataRows = << <<"file.docx", "Sub", 2, 1, 1, "a">>,
                            <<"file.docx", "Sub", 2, 1, 2, "b">> >>

\* rows that open a table: Fila = 1 and Col = 1
TableStarts == {r \in 2..Len(ws) : ws[r][5] = 1 /\ ws[r][6] = 1}

\* C4: the k-th table written during one procesar call carries #Tabla = k,
\* whatever file it comes from.
C4_TableIndexAcrossFiles ==
    pc = "procesar_done" =>
        \A r \in TableStarts :
            ws[r][4] = Cardinality({q \in TableStarts : q <= r})

\* C5: a file whose bytes are not a document is skipped; the call does not
\* abort and returns a result.
C5_InvalidFileSkipped ==
    ~(pc = "raised" /\ ~abre(entradas(archivos)[idx + 1].content))

(***************************************************************************)
(* Properties of procesar_grouped                                          *)
(***************************************************************************)
DocDe(key) ==
    IF tiene_composer(composers, key)
    THEN composers[CHOOSE c \in 1..Len(composers) : composers[c][1] = key][2]
    ELSE <<>>

\* the section of the heading at 1-based position i: the heading, then the
\* paragraphs and tables up to the next heading of level <= group_level, a
\* table as add_table and the cell assignments leave it
SeccionEsperada(bl, i) ==
    LET later == {j \in (i + 1)..Len(bl) :
                     bl[j][1] = "h" /\ bl[j][2] <= group_level}
        last == IF later = {} THEN Len(bl) ELSE Min(later) - 1
    IN  <<<<"h", group_level, bl[i][3]>>>>
        \o en_part_todos(SelectSeq(SubSeq(bl, i + 1, last),
                                   LAMBDA b : b[1] \in {"p", "t"}))

\* the sections of one file for a key, in document order
SeccionesDe(a, key, whitelist) ==
    LET bl == _extraer_bloques(a.content.body)
    IN  Flatten([i \in 1..Len(bl) |->
                    IF /\ bl[i][1] = "h" /\ bl[i][2] = group_level
                       /\ base_title(bl[i][3]) = key
                       /\ (whitelist => allowed_by_whitelist(bl[i][2], bl[i][3]))
                    THEN SeccionEsperada(bl, i) ELSE <<>>])

\* what the first n files hold for a key, in input order
SeccionesHasta(n, key, whitelist) ==
    Flatten([f \in 1..n |-> SeccionesDe(entradas(archivos)[f], key, whitelist)])

Assembling == pc \in {"grouped_assemble", "grouped_done"}

OneComposerPerKey ==
    \A c, d \in 1..Len(composers) : composers[c][1] = composers[d][1] => c = d

\* keys of the working set with a qualifying occurrence in some file
KeysWithOccurrence ==
    {key \in target_keys :
        SeccionesHasta(Len(entradas(archivos)), key, enforce_whitelist) # <<>>}

\* the returned documents that hold exactly the sections d
DocumentosCon(d) == {f \in DOMAIN out : out[f] = d}

\* C7: for every title of the working key set, the sections at group_level
\* with that base title (those the assembly admits: spec 4.8 leaves out a
\* heading that fails an enforced whitelist) are appended to the title's one
\* document, by input file order and within a file by position; and the
\* call yields exactly one output document holding the sections of a title
\* that occurs, the first file's first.
C7_SectionsInOneOutputDocument ==
    /\ Assembling =>
           /\ OneComposerPerKey
           /\ \A key \in target_keys :
                  DocDe(key) = SeccionesHasta(idx, key, enforce_whitelist)
    /\ pc = "grouped_done" =>
           \A key \in KeysWithOccurrence :
               Cardinality(DocumentosCon(
                   SeccionesHasta(Len(entradas(archivos)), key,
                                  enforce_whitelist))) = 1

\* the first conjunct alone: what the per-title documents hold while the
\* files are assembled
PerTitleDocumentsHoldSections ==
    Assembling =>
        /\ OneComposerPerKey
        /\ \A c \in 1..Len(composers) : composers[c][1] \in target_keys
        /\ \A key \in target_keys :
               DocDe(key) = SeccionesHasta(idx, key, enforce_whitelist)

\* two files hold sections of one title, one of them two such sections,
\* and the title's document holds them all in file and document order
SeveralSectionsAssembled ==
    /\ pc = "grouped_done"
    /\ Len(entradas(archivos)) = 2
    /\ \E key \in target_keys :
          /\ SeccionesDe(entradas(archivos)[1], key, enforce_whitelist) # <<>>
          /\ Cardinality({n \in 1..Len(DocDe(key)) : DocDe(key)[n][1] = "h"}) >= 3

\* C9: the returned mapping has exactly one entry per key of the working
\* set that occurs in some file, and none for a key without occurrence.
C9_OneEntryPerTitle ==
    pc = "grouped_done" =>
        /\ Cardinality(DOMAIN out) = Cardinality(KeysWithOccurrence)
        /\ DOMAIN out = {filename_de(key, sample_visible_for) :
                            key \in KeysWithOccurrence}

(***************************************************************************)
(* The merged document of procesar                                         *)
(***************************************************************************)
\* the blocks of an input file; a file without content has none
BloquesDe(a) ==
    IF a.content.bytes = "docx" THEN _extraer_bloques(a.content.body) ELSE <<>>

\* the ranges rs by ascending start
PorInicio(rs) ==
    [k \in 1..Len(rs) |->
        CHOOSE r \in {rs[n] : n \in 1..Len(rs)} :
            Cardinality({n \in 1..Len(rs) : rs[n][1] < r[1]}) = k - 1]

\* the heading block at the start of range r, the paragraph and table
\* blocks of bl[start+1 .. end) in original order, a table as add_table
\* and the cell assignments leave it, one blank paragraph
Fragmento(bl, r) ==
    <<bl[r[1] + 1]>>
    \o en_part_todos(SelectSeq(SubSeq(bl, r[1] + 2, r[2]),
                               LAMBDA b : b[1] \in {"p", "t"}))
    \o <<<<"p", 0, "">>>>

FragmentosDe(bl, rs) == Flatten([k \in 1..Len(rs) |-> Fragmento(bl, rs[k])])

ContribucionDe(bl) ==
    FragmentosDe(bl, PorInicio(_rangos_por_titulo(bl, niveles, titulos_exactos_norm,
                                                  enforce_whitelist)))

\* the concatenation over the files fs, in their order
DocumentoDe(fs) == Flatten([f \in 1..Len(fs) |-> ContribucionDe(BloquesDe(fs[f]))])

BlancosEn(d) == Cardinality({n \in 1..Len(d) : d[n] = <<"p", 0, "">>})

\* C11: the merged document of procesar is the concatenation, over the input
\* files in input order and within a file over its ranges by ascending
\* start, of each range's fragment (its heading, then the paragraphs and
\* tables of blocks[start+1 .. end) in original order) followed by one blank
\* paragraph; a file without a qualifying range contributes nothing, and
\* while the files are being merged the document holds exactly the
\* fragments of the files handled so far, so nothing of a later file
\* precedes content of an earlier one
C11_MergedDocumentIsConcatenation ==
    /\ pc = "procesar_loop" =>
           doc = DocumentoDe(SubSeq(entradas(archivos), 1, idx))
    /\ pc = "procesar_done" =>
           /\ out["unificado.docx"] = DocumentoDe(archivos)
           /\ \A f \in 1..Len(archivos) :
                  _rangos_por_titulo(BloquesDe(archivos[f]), niveles,
                                     titulos_exactos_norm, enforce_whitelist) = <<>>
                  => ContribucionDe(BloquesDe(archivos[f])) = <<>>

\* two files that both contribute, the first one several ranges and a
\* table, have been merged
C11_Witness ==
    /\ pc = "procesar_done"
    /\ Len(archivos) = 2
    /\ BlancosEn(ContribucionDe(BloquesDe(archivos[1]))) >= 2
    /\ BlancosEn(ContribucionDe(BloquesDe(archivos[2]))) >= 1
    /\ ContribucionDe(BloquesDe(archivos[1])) # ContribucionDe(BloquesDe(archivos[2]))
    /\ \E n \in 1..Len(out["unificado.docx"]) : out["unificado.docx"][n][1] = "t"
    /\ Len(out["unificado.docx"]) =
           Len(ContribucionDe(BloquesDe(archivos[1])))
           + Len(ContribucionDe(BloquesDe(archivos[2])))

====
